---- MODULE Spec2Model ----
(***************************************************************************)
(* Model of amethyst_renderer's sprite helpers (src/sprite.rs) and of the  *)
(* two reference instance encoders (src/encoding/encoders_impl.rs).        *)
(*                                                                         *)
(* f32 values are modelled by integers drawn from small sets; the input    *)
(* sets are chosen so that every division and halving in the code is       *)
(* exact.  Option<T> is a sequence: <<>> is None and <<v>> is Some(v).     *)
(* Rust indices start at 0, TLA+ sequences at 1: v[i] in the code is       *)
(* v[i + 1] here.                                                          *)
(***************************************************************************)
EXTENDS Integers, Sequences, FiniteSets, TLC

VARIABLES
    \* ---- sprite.rs: the two Sprite conversions
    uv,               \* the six values a Sprite is built from
    from_tuple,       \* Option<Sprite>: result of From<((f32,f32),(f32,f32),(f32,f32))>
    from_slice,       \* Option<Sprite>: result of From<[f32; 6]>
    \* ---- sprite.rs: SpriteRenderData
    alive,            \* the entities of the world that are alive
    meshes,           \* WriteStorage<MeshHandle>: entity -> Option<MeshHandle>
    materials,        \* WriteStorage<Material>:   entity -> Option<Material>
    asset_storage,    \* AssetStorage<Mesh>: the mesh data loaded so far
    pc,               \* "idle", or "returned" right after a helper returned
    call,             \* Option: the helper call that just returned
    \* ---- encoders_impl.rs: the world the encoders read
    rgbas,                \* ReadStorage<Rgba>:            entity -> Option<Rgba>
    transforms,           \* ReadStorage<GlobalTransform>: entity -> Option<Matrix4>
    sprite_renders,       \* ReadStorage<SpriteRender>:    entity -> Option<SpriteRender>
    spritesheet_storage,  \* AssetStorage<SpriteSheet>:    handle -> Option<SpriteSheet>
    \* ---- encoders_impl.rs: what the encode calls of this frame produced
    tint,             \* RgbaTintEncoder::encode: buffer of TintProperty
    geom,             \* SpriteTransformEncoder::encode: buffers of Pos2D, DirX, DirY
    \* ---- encoders_impl.rs: one call of each per-entity closure
    in_rgba,          \* Option<&Rgba> handed to the tint closure
    in_transform,     \* Option<&GlobalTransform> handed to the transform closure
    in_sprite_render, \* Option<&SpriteRender> handed to the transform closure
    out_tint,         \* Option: what the tint closure returned
    out_geom          \* Option: what the transform closure returned (or its panic)

spriteVars == <<uv, from_tuple, from_slice>>
attachVars == <<alive, meshes, materials, asset_storage, pc, call>>
worldVars == <<rgbas, transforms, sprite_renders, spritesheet_storage>>
frameVars == <<tint, geom>>
closureVars == <<in_rgba, in_transform, in_sprite_render, out_tint, out_geom>>
encVars == <<worldVars, frameVars, closureVars>>
vars == <<spriteVars, attachVars, encVars>>

\* ------------------------------------------------------------------ bounds
NumEntities == 3      \* entities of the world: 0 .. NumEntities - 1
NumInstances == 2     \* entities of the world the encoders run over
MaxLen == 3           \* longest entity list handed to add_multiple
MaxLoads == 2         \* meshes the loader may load in one behaviour
MaxVal == 2           \* sprite conversion inputs are drawn from 0 .. MaxVal

Entities == 0 .. (NumEntities - 1)

\* ------------------------------------------------------------------ Option
None == <<>>
Some(x) == <<x>>
IsSome(o) == Len(o) = 1
IsNone(o) == Len(o) = 0
Unwrap(o) == o[1]

\* Sequences over S of length at most n.
SeqUpTo(S, n) == UNION {[1 .. k -> S] : k \in 0 .. n}

\* ============================================== encoders_impl.rs: the data
Instances == 0 .. (NumInstances - 1)

\* Rgba(r, g, b, a): a tuple struct, field .i is place i + 1.
RgbaWHITE == <<1, 1, 1, 1>>
RgbaValues == {<<3, 0, 2, 1>>, <<0, 0, 0, 0>>}
ClosureRgbaValues == RgbaValues \cup {<<1, 1, 1, 1>>, <<2, 2, 0, 3>>}

\* GlobalTransform(Matrix4<f32>): a matrix is the sequence of its four
\* columns (nalgebra stores column-major), each a Vector4.
Transforms ==
    {<<<<2, 0, 0, 0>>, <<0, 3, 0, 0>>, <<0, 0, 1, 0>>, <<5, 7, 0, 1>>>>,
     <<<<1, 2, 3, 4>>, <<5, 6, 7, 8>>, <<9, 10, 11, 12>>, <<13, 14, 15, 16>>>>}
ClosureTransforms ==
    Transforms \cup
    {<<<<1, 0, 0, 0>>, <<0, 1, 0, 0>>, <<0, 0, 1, 0>>, <<0, 0, 0, 1>>>>,
     <<<<0, 1, 0, 0>>, <<-1, 0, 0, 0>>, <<0, 0, 1, 0>>, <<-2, 4, 0, 1>>>>,
     <<<<0, -2, 1, 0>>, <<3, 0, 0, -1>>, <<0, 0, 0, 0>>, <<1, 1, 1, 0>>>>}

\* The fields of a sprite that the transform encoder reads.
EncSprite(width, height, offsets) ==
    [width |-> width, height |-> height, offsets |-> offsets]

\* SpriteSheet { texture_id, sprites }
SheetA == [texture_id |-> 0,
           sprites |-> <<EncSprite(4, 2, <<1, -1>>), EncSprite(3, 5, <<0, 2>>)>>]
SheetB == [texture_id |-> 1, sprites |-> <<EncSprite(1, 6, <<-3, 2>>)>>]
SheetHandles == {"sheet_a", "sheet_b"}

\* The asset storage with only sheet_a loaded, and with both sheets loaded.
OnlySheetA == [h \in SheetHandles |-> IF h = "sheet_a" THEN Some(SheetA) ELSE None]
BothSheets == [h \in SheetHandles |-> IF h = "sheet_a" THEN Some(SheetA) ELSE Some(SheetB)]

\* SpriteRender { sprite_sheet, sprite_number }
SpriteRender(sprite_sheet, sprite_number) ==
    [sprite_sheet |-> sprite_sheet, sprite_number |-> sprite_number]
SpriteRenders ==
    {SpriteRender("sheet_a", 0), SpriteRender("sheet_a", 2), SpriteRender("sheet_b", 0)}
ClosureSpriteRenders ==
    SpriteRenders \cup {SpriteRender("sheet_a", 1), SpriteRender("sheet_b", 1)}

Options(S) == {None} \cup {Some(x) : x \in S}

\* An encoder that has not run in this frame: empty buffers.  `rows` is the
\* entity of each row, `prev` the output of the call before the last one.
TintNotRun == [status |-> "idle", rows |-> <<>>, tint |-> <<>>, prev |-> None]
GeomNotRun == [status |-> "idle", rows |-> <<>>, pos |-> <<>>, dir_x |-> <<>>,
               dir_y |-> <<>>, prev |-> None]

\* =================================================================== Sprite
\* Sprite { width, height, left, right, top, bottom }
Sprite(width, height, left, right, top, bottom) ==
    [width |-> width, height |-> height, left |-> left,
     right |-> right, top |-> top, bottom |-> bottom]

\* A plausible slip: the two texture-coordinate pairs read in (left, top),
\* (right, bottom) order.
SpriteFromTupleCornerPairs(t) ==
    Sprite(t[1][1], t[1][2], t[2][1], t[3][1], t[2][2], t[3][2])

\* impl From<((f32, f32), (f32, f32), (f32, f32))> for Sprite
SpriteFromTuple(t) ==
    LET width == t[1][1]   height == t[1][2]
        left == t[2][1]    right == t[2][2]
        top == t[3][1]     bottom == t[3][2]
    IN  Sprite(width, height, left, right, top, bottom)

\* impl From<[f32; 6]> for Sprite
SpriteFromSlice(a) ==
    [width |-> a[0 + 1], height |-> a[1 + 1], left |-> a[2 + 1],
     right |-> a[3 + 1], top |-> a[4 + 1], bottom |-> a[5 + 1]]

\* The nested form of the six values [w, h, l, r, t, b].
Nested(a) == <<<<a[1], a[2]>>, <<a[3], a[4]>>, <<a[5], a[6]>>>>

ConvertFromTuple ==
    /\ IsNone(from_tuple)
    /\ from_tuple' = Some(SpriteFromTuple(Nested(uv)))
    /\ UNCHANGED <<uv, from_slice, attachVars, encVars>>

ConvertFromSlice ==
    /\ IsNone(from_slice)
    /\ from_slice' = Some(SpriteFromSlice(uv))
    /\ UNCHANGED <<uv, from_tuple, attachVars, encVars>>

SpriteIdle == uv = <<0, 0, 0, 0, 0, 0>> /\ from_tuple = None /\ from_slice = None

AttachIdle ==
    /\ alive = Entities
    /\ meshes = [e \in Entities |-> None]
    /\ materials = [e \in Entities |-> None]
    /\ asset_storage = <<>>
    /\ pc = "idle"
    /\ call = None

\* No entity carries a component, only sheet_a is loaded, no encoder has run.
EncIdle ==
    /\ rgbas = [e \in Instances |-> None]
    /\ transforms = [e \in Instances |-> None]
    /\ sprite_renders = [e \in Instances |-> None]
    /\ spritesheet_storage = OnlySheetA
    /\ tint = TintNotRun
    /\ geom = GeomNotRun
    /\ in_rgba = None /\ in_transform = None /\ in_sprite_render = None
    /\ out_tint = None /\ out_geom = None

InitSprite ==
    /\ uv \in [1 .. 6 -> 0 .. MaxVal]
    /\ from_tuple = None
    /\ from_slice = None
    /\ AttachIdle
    /\ EncIdle

NextSprite == ConvertFromTuple \/ ConvertFromSlice

SpecSprite == InitSprite /\ [][NextSprite]_vars

\* ========================================================= SpriteRenderData
\* The arguments the helpers are called with.  Coordinates and sizes are
\* chosen so that `* 0.5` and the divisions by the texture size are exact.
\* <<sprite, texture, texture_size>>
CallArgs ==
    {<<Sprite(2, 2, 0, 2, 0, 2), "tex_a", <<2, 2>>>>,
     <<Sprite(4, 2, 2, 6, 2, 4), "tex_b", <<2, 2>>>>}

\* material_defaults.0: the fields of Material that the helpers do not set.
MaterialDefaults == "material_defaults"

\* Entity lists handed to add_multiple (an entity may occur more than once).
EntityLists == SeqUpTo(Entities, MaxLen)

\* WriteStorage::insert(entity, value): Err for an entity that is not alive,
\* otherwise the value is stored (replacing an older one).  `st` carries the
\* two storages, the error flag of the `?` operator and the log of writes.
MeshesInsert(st, entity, mesh) ==
    IF entity \in alive
    THEN [st EXCEPT !.meshes = [@ EXCEPT ![entity] = Some(mesh)],
                    !.writes = Append(@, <<"meshes", entity>>)]
    ELSE [st EXCEPT !.err = TRUE]

MaterialsInsert(st, entity, material) ==
    IF entity \in alive
    THEN [st EXCEPT !.materials = [@ EXCEPT ![entity] = Some(material)],
                    !.writes = Append(@, <<"materials", entity>>)]
    ELSE [st EXCEPT !.err = TRUE]

\* A plausible slip: the insertion results are dropped instead of
\* propagated, so a failed insertion does not stop the helper.
InsertBothIgnoringErrors(st, entity, mesh, material) ==
    LET s1 == MeshesInsert(st, entity, mesh)
        s2 == MaterialsInsert(s1, entity, material)
    IN  [s2 EXCEPT !.err = FALSE]

\* self.meshes.insert(e, mesh)?; self.materials.insert(e, material)?;
\* `?` returns from the helper at the first Err: once st.err is set nothing
\* more is done.
InsertBoth(st, entity, mesh, material) ==
    IF st.err THEN st
    ELSE LET s1 == MeshesInsert(st, entity, mesh)
         IN  IF s1.err THEN s1 ELSE MaterialsInsert(s1, entity, material)

\* build_mesh_and_material: the mesh data handed to the loader and the
\* material.  The handle of the mesh is its place in the asset storage.
MeshData(sprite) ==
    LET half_width == (sprite.right - sprite.left) \div 2
        half_height == (sprite.bottom - sprite.top) \div 2
    IN  <<half_width, half_height, 0>>

BuildMaterial(sprite, texture, size) ==
    [albedo |-> texture,
     albedo_offset |->
        [u |-> <<sprite.left \div size[1], sprite.right \div size[1]>>,
         v |-> <<1 - (sprite.bottom \div size[2]), 1 - (sprite.top \div size[2])>>],
     rest |-> MaterialDefaults]

\* The state a helper starts from.
Start == [meshes |-> meshes, materials |-> materials, err |-> FALSE,
          writes |-> <<>>, loaded |-> asset_storage]

BuildMeshAndMaterial(st, sprite) ==
    [st EXCEPT !.loaded = Append(@, MeshData(sprite))]

\* for entity in 0..len - 1 { insert(entities[entity], clone)?; ... }
\* The Rust range i .. n excludes n; i and n are Rust indices.
RECURSIVE InsertRange(_, _, _, _, _, _)
InsertRange(st, entities, i, n, mesh, material) ==
    IF i >= n \/ st.err THEN st
    ELSE InsertRange(InsertBoth(st, entities[i + 1], mesh, material),
                     entities, i + 1, n, mesh, material)

\* A plausible slip: only the loop, without the two insertions for the last
\* entity that follow it.
AddMultipleLoopOnly(st, entities, sprite, texture, texture_size) ==
    LET len == Len(entities) IN
    IF len # 0
    THEN LET built == BuildMeshAndMaterial(st, sprite)
             mesh == Len(built.loaded)
             material == BuildMaterial(sprite, texture, texture_size)
         IN  InsertRange(built, entities, 0, len - 1, mesh, material)
    ELSE st

\* A plausible slip: the mesh and the material are built before the length
\* is looked at.
AddMultipleBuildFirst(st, entities, sprite, texture, texture_size) ==
    LET len == Len(entities)
        built == BuildMeshAndMaterial(st, sprite)
        mesh == Len(built.loaded)
        material == BuildMaterial(sprite, texture, texture_size)
    IN  IF len # 0
        THEN InsertBoth(InsertRange(built, entities, 0, len - 1, mesh, material),
                        entities[(len - 1) + 1], mesh, material)
        ELSE built

\* SpriteRenderData::add_multiple
AddMultipleBody(st, entities, sprite, texture, texture_size) ==
    LET len == Len(entities) IN
    IF len # 0
    THEN LET built == BuildMeshAndMaterial(st, sprite)
             mesh == Len(built.loaded)
             material == BuildMaterial(sprite, texture, texture_size)
             looped == InsertRange(built, entities, 0, len - 1, mesh, material)
         IN  InsertBoth(looped, entities[(len - 1) + 1], mesh, material)
    ELSE st

\* SpriteRenderData::add
AddBody(st, entity, sprite, texture, texture_size) ==
    LET built == BuildMeshAndMaterial(st, sprite)
        mesh == Len(built.loaded)
        material == BuildMaterial(sprite, texture, texture_size)
    IN  InsertBoth(built, entity, mesh, material)

\* What a helper call leaves behind: the storages it wrote, and the record of
\* the call (its arguments, its Result, the state it started from).
Returned(op, entities, sprite, texture, size, end) ==
    /\ meshes' = end.meshes
    /\ materials' = end.materials
    /\ asset_storage' = end.loaded
    /\ pc' = "returned"
    /\ call' = Some([op |-> op, entities |-> entities,
                     mesh |-> Len(asset_storage) + 1,
                     material |-> BuildMaterial(sprite, texture, size),
                     result |-> IF end.err THEN "Err" ELSE "Ok",
                     writes |-> end.writes,
                     pre_meshes |-> meshes, pre_materials |-> materials,
                     pre_loaded |-> asset_storage])
    /\ UNCHANGED <<alive, spriteVars, encVars>>

AddMultiple ==
    /\ pc = "idle"
    /\ \E entities \in EntityLists, a \in CallArgs :
          LET end == AddMultipleBody(Start, entities, a[1], a[2], a[3])
          IN  /\ Len(end.loaded) <= MaxLoads
              /\ Returned("add_multiple", entities, a[1], a[2], a[3], end)

Add ==
    /\ pc = "idle"
    /\ \E entity \in Entities, a \in CallArgs :
          LET end == AddBody(Start, entity, a[1], a[2], a[3])
          IN  /\ Len(end.loaded) <= MaxLoads
              /\ Returned("add", <<entity>>, a[1], a[2], a[3], end)

\* The caller takes the Result and goes on.
Resume ==
    /\ pc = "returned"
    /\ pc' = "idle"
    /\ call' = None
    /\ UNCHANGED <<alive, meshes, materials, asset_storage, spriteVars, encVars>>

InitAttach ==
    /\ alive \in SUBSET Entities
    /\ meshes = [e \in Entities |-> None]
    /\ materials = [e \in Entities |-> None]
    /\ asset_storage = <<>>
    /\ pc = "idle"
    /\ call = None
    /\ SpriteIdle
    /\ EncIdle

NextAttach == AddMultiple \/ Add \/ Resume

SpecAttach == InitAttach /\ [][NextAttach]_vars

\* ------------------------------------------------------ claims: sprite.rs
Range(q) == {q[i] : i \in 1 .. Len(q)}

\* The add_multiple call that has just returned, if any.
ReturnedAddMultiple == IsSome(call) /\ Unwrap(call).op = "add_multiple"

\* C6: after add_multiple succeeds on a list of N > 0 entities, every entity
\* of the list (first, middle, last) holds the mesh handle built by the call
\* and an equal material, and the storages of every entity outside the list
\* are as they were before the call.
C6_AllEntitiesAttached ==
    (ReturnedAddMultiple /\ Unwrap(call).result = "Ok"
        /\ Len(Unwrap(call).entities) > 0) =>
    LET c == Unwrap(call) IN
    /\ \A i \in 1 .. Len(c.entities) :
          /\ meshes[c.entities[i]] = Some(c.mesh)
          /\ materials[c.entities[i]] = Some(c.material)
    /\ \A e \in Entities \ Range(c.entities) :
          /\ meshes[e] = c.pre_meshes[e]
          /\ materials[e] = c.pre_materials[e]
    /\ Range(c.entities) \subseteq alive

\* C6 witness: a successful call on three different entities, one of which
\* held an older mesh.
C6_Witness ==
    /\ ReturnedAddMultiple
    /\ Unwrap(call).result = "Ok"
    /\ Len(Unwrap(call).entities) = 3
    /\ Cardinality(Range(Unwrap(call).entities)) = 3
    /\ \E e \in Entities : IsSome(Unwrap(call).pre_meshes[e])

\* C7: add_multiple with an empty list reports success, leaves the mesh and
\* the material storage as they were, and loads no mesh.
C7_EmptyListIsNoOp ==
    (ReturnedAddMultiple /\ Unwrap(call).entities = <<>>) =>
    LET c == Unwrap(call) IN
    /\ c.result = "Ok"
    /\ meshes = c.pre_meshes
    /\ materials = c.pre_materials
    /\ asset_storage = c.pre_loaded
    /\ c.writes = <<>>

\* C7 witness: an empty-list call made when the storages already hold data.
C7_Witness ==
    /\ ReturnedAddMultiple
    /\ Unwrap(call).entities = <<>>
    /\ Unwrap(call).result = "Ok"
    /\ \E e \in Entities : IsSome(meshes[e]) /\ IsSome(materials[e])

\* The first position of the list whose entity is not alive (0: none).
FirstDead(entities) ==
    IF \A i \in 1 .. Len(entities) : entities[i] \in alive THEN 0
    ELSE CHOOSE k \in 1 .. Len(entities) :
            /\ entities[k] \notin alive
            /\ \A j \in 1 .. (k - 1) : entities[j] \in alive

\* The writes of a call that attached to the first n entities of the list, in
\* order: the mesh, then the material, of each.
PrefixWrites(entities, n) ==
    [i \in 1 .. (2 * n) |->
        IF i % 2 = 1 THEN <<"meshes", entities[(i + 1) \div 2]>>
                     ELSE <<"materials", entities[i \div 2]>>]

\* C10: when the entity at position k of the list is the first whose
\* insertion fails, add_multiple returns the error, has written exactly the
\* positions before k (mesh and material each, still attached: no rollback),
\* and has written nothing for position k or any later position.
C10_ErrorStopsAtFirstFailure ==
    (ReturnedAddMultiple /\ FirstDead(Unwrap(call).entities) # 0) =>
    LET c == Unwrap(call)
        k == FirstDead(c.entities)
        before == {c.entities[j] : j \in 1 .. (k - 1)}
    IN  /\ c.result = "Err"
        /\ c.writes = PrefixWrites(c.entities, k - 1)
        /\ \A e \in before :
              /\ meshes[e] = Some(c.mesh)
              /\ materials[e] = Some(c.material)
        /\ \A e \in Entities \ before :
              /\ meshes[e] = c.pre_meshes[e]
              /\ materials[e] = c.pre_materials[e]

\* C10 witness: the failure is in the middle of the list; the entity before
\* it was written and the live entity after it was not.
C10_Witness ==
    /\ ReturnedAddMultiple
    /\ Unwrap(call).result = "Err"
    /\ Len(Unwrap(call).entities) = 3
    /\ FirstDead(Unwrap(call).entities) = 2
    /\ LET c == Unwrap(call) IN
          /\ c.entities[3] \in alive
          /\ c.entities[3] # c.entities[1]
          /\ IsSome(meshes[c.entities[1]])
          /\ IsNone(meshes[c.entities[3]])

\* C8: the Sprite built from the nested form and the Sprite built from the
\* flat sequence of the same six values are field-wise equal, both being
\* {width: w, height: h, left: l, right: r, top: t, bottom: b}.
C8_ConversionsAgree ==
    (IsSome(from_tuple) /\ IsSome(from_slice)) =>
    LET a == Unwrap(from_tuple)
        b == Unwrap(from_slice)
    IN  /\ a.width = b.width /\ a.height = b.height
        /\ a.left = b.left /\ a.right = b.right
        /\ a.top = b.top /\ a.bottom = b.bottom
        /\ a.width = uv[1] /\ a.height = uv[2]
        /\ a.left = uv[3] /\ a.right = uv[4]
        /\ a.top = uv[5] /\ a.bottom = uv[6]

\* C8 witness: both conversions done on values whose neighbours differ.
C8_Witness ==
    /\ IsSome(from_tuple)
    /\ IsSome(from_slice)
    /\ \A i \in 1 .. 5 : uv[i] # uv[i + 1]

\* ======================================================= encoders_impl.rs
\* ---- RgbaTintEncoder
\* A plausible slip: an entity without Rgba is skipped instead of defaulted.
RgbaTintClosureSkipsAbsent(rgba) ==
    IF IsSome(rgba)
    THEN LET c == Unwrap(rgba) IN <<Some(<<c[1], c[2], c[3], c[4]>>)>>
    ELSE <<None>>

\* A plausible slip: the closure captures a flag and encodes the real tint
\* only in the first encode call of the encoder.
RgbaTintClosureFirstCallOnly(rgba) ==
    IF tint.status = "idle"
    THEN LET c == IF IsSome(rgba) THEN Unwrap(rgba) ELSE RgbaWHITE
         IN  <<Some(<<c[1], c[2], c[3], c[4]>>)>>
    ELSE <<Some(RgbaWHITE)>>

\* |(rgba,)| { let rgba = rgba.unwrap_or(&Rgba::WHITE);
\*             (Some([rgba.0, rgba.1, rgba.2, rgba.3]),) }
RgbaTintClosure(rgba) ==
    LET c == IF IsSome(rgba) THEN Unwrap(rgba) ELSE RgbaWHITE
    IN  <<Some(<<c[0 + 1], c[1 + 1], c[2 + 1], c[3 + 1]>>)>>

\* ---- nalgebra
\* Matrix4::column(j): the j-th column (j a Rust index).
Column(m, j) == m[j + 1]
\* Vector4 * f32
Scale(v, k) == [i \in 1 .. 4 |-> v[i] * k]
\* Matrix4 * Vector4: row i of the product is the sum over the columns j of
\* m(i, j) * v(j).
MatVec(m, v) ==
    [i \in 1 .. 4 |->
        m[1][i] * v[1] + m[2][i] * v[2] + m[3][i] * v[3] + m[4][i] * v[4]]
\* Vector4::new(x, y, z, w)
Vector4(x, y, z, w) == <<x, y, z, w>>

\* ---- SpriteTransformEncoder
\* The closure's result: it panicked, or it returned (pos, dir_x, dir_y).
Panicked == [panic |-> TRUE, out |-> <<>>]
Returns(pos, dir_x, dir_y) == [panic |-> FALSE, out |-> <<pos, dir_x, dir_y>>]

\* A plausible slip: with the transform alone the position is still encoded
\* (from the origin), and only the directions are withheld.
SpriteTransformClosurePartial(transform, sprite_render) ==
    IF IsSome(transform) /\ IsSome(sprite_render)
    THEN LET sheet == spritesheet_storage[Unwrap(sprite_render).sprite_sheet]
             n == Unwrap(sprite_render).sprite_number
         IN  IF IsNone(sheet) \/ n >= Len(Unwrap(sheet).sprites) THEN Panicked
             ELSE LET sprite == Unwrap(sheet).sprites[n + 1]
                      t == Unwrap(transform)
                  IN  Returns(Some(MatVec(t, Vector4(-sprite.offsets[1],
                                                     -sprite.offsets[2], 0, 1))),
                              Some(Scale(Column(t, 0), sprite.width)),
                              Some(Scale(Column(t, 1), sprite.height)))
    ELSE IF IsSome(transform)
         THEN Returns(Some(MatVec(Unwrap(transform), Vector4(0, 0, 0, 1))),
                      None, None)
         ELSE Returns(None, None, None)

\* A plausible slip: the transform's rows are read instead of its columns,
\* and the vector is multiplied from the left.
SpriteTransformClosureTransposed(transform, sprite_render) ==
    IF IsSome(transform) /\ IsSome(sprite_render)
    THEN LET sheet == spritesheet_storage[Unwrap(sprite_render).sprite_sheet]
             n == Unwrap(sprite_render).sprite_number
         IN  IF IsNone(sheet) \/ n >= Len(Unwrap(sheet).sprites) THEN Panicked
             ELSE LET sprite == Unwrap(sheet).sprites[n + 1]
                      t == Unwrap(transform)
                      tt == [j \in 1 .. 4 |-> [i \in 1 .. 4 |-> t[i][j]]]
                  IN  Returns(Some(MatVec(tt, Vector4(-sprite.offsets[1],
                                                      -sprite.offsets[2], 0, 1))),
                              Some(Scale(Column(tt, 0), sprite.width)),
                              Some(Scale(Column(tt, 1), sprite.height)))
    ELSE Returns(None, None, None)

\* |(transform, sprite_render)| { if let (Some(..), Some(..)) = .. {..} else
\* { (None, None, None) } }.  AssetStorage::get returns None for a handle
\* whose asset is not loaded and unwrap() then panics; indexing
\* sprite_sheet.sprites past its length panics.
SpriteTransformClosure(transform, sprite_render) ==
    IF IsSome(transform) /\ IsSome(sprite_render)
    THEN LET sheet == spritesheet_storage[Unwrap(sprite_render).sprite_sheet]
             n == Unwrap(sprite_render).sprite_number
         IN  IF IsNone(sheet) THEN Panicked
             ELSE IF n >= Len(Unwrap(sheet).sprites) THEN Panicked
             ELSE LET sprite == Unwrap(sheet).sprites[n + 1]
                      t == Unwrap(transform)
                      dir_x == Scale(Column(t, 0), sprite.width)
                      dir_y == Scale(Column(t, 1), sprite.height)
                      pos == MatVec(t, Vector4(-sprite.offsets[0 + 1],
                                               -sprite.offsets[1 + 1], 0, 1))
                  IN  Returns(Some(pos), Some(dir_x), Some(dir_y))
    ELSE Returns(None, None, None)

\* ---- EncodeLoop (encoder.rs, not part of the sources at hand)
\* The join: the entities that carry any of the encoder's declared bindings,
\* in ascending entity order.
RECURSIVE Ascending(_)
Ascending(S) ==
    IF S = {} THEN <<>>
    ELSE LET lo == CHOOSE x \in S : \A y \in S : x <= y
         IN  <<lo>> \o Ascending(S \ {lo})

TintJoin == Ascending({e \in Instances : IsSome(rgbas[e])})
GeomJoin ==
    Ascending({e \in Instances : IsSome(transforms[e]) \/ IsSome(sprite_renders[e])})

\* RgbaTintEncoder::encode: encode_loop.run(closure) over the join.
RgbaTintEncode(rows) ==
    [i \in 1 .. Len(rows) |-> RgbaTintClosure(rgbas[rows[i]])]

\* SpriteTransformEncoder::encode: encode_loop.run(closure) over the join.
SpriteTransformEncode(rows) ==
    [i \in 1 .. Len(rows) |->
        SpriteTransformClosure(transforms[rows[i]], sprite_renders[rows[i]])]

\* The output of the last call of an encoder, kept to compare two calls.
LastTint == IF tint.status = "ok" THEN Some(<<tint.rows, tint.tint>>) ELSE None
LastGeom ==
    IF geom.status = "ok"
    THEN Some(<<geom.rows, geom.pos, geom.dir_x, geom.dir_y>>) ELSE None

\* The process is gone once an encode call has panicked.
Running == geom.status # "panic"

RunTintEncoder ==
    /\ Running
    /\ LET rows == TintJoin
           res == RgbaTintEncode(rows)
       IN  tint' = [status |-> "ok", rows |-> rows,
                    tint |-> [i \in 1 .. Len(rows) |-> res[i][1]],
                    prev |-> LastTint]
    /\ UNCHANGED <<geom, worldVars, closureVars, spriteVars, attachVars>>

RunSpriteTransformEncoder ==
    /\ Running
    /\ LET rows == GeomJoin
           res == SpriteTransformEncode(rows)
       IN  IF \E i \in 1 .. Len(rows) : res[i].panic
           THEN geom' = [GeomNotRun EXCEPT !.status = "panic"]
           ELSE geom' = [status |-> "ok", rows |-> rows,
                         pos |-> [i \in 1 .. Len(rows) |-> res[i].out[1]],
                         dir_x |-> [i \in 1 .. Len(rows) |-> res[i].out[2]],
                         dir_y |-> [i \in 1 .. Len(rows) |-> res[i].out[3]],
                         prev |-> LastGeom]
    /\ UNCHANGED <<tint, worldVars, closureVars, spriteVars, attachVars>>

ClosureIdle ==
    /\ in_rgba = None /\ in_transform = None /\ in_sprite_render = None
    /\ out_tint = None /\ out_geom = None

\* One frame: any population of the world, only sheet_a loaded, no encoder
\* has run yet.
Init ==
    /\ rgbas \in [Instances -> Options(RgbaValues)]
    /\ transforms \in [Instances -> Options(Transforms)]
    /\ sprite_renders \in [Instances -> Options(SpriteRenders)]
    /\ spritesheet_storage = OnlySheetA
    /\ tint = TintNotRun
    /\ geom = GeomNotRun
    /\ ClosureIdle
    /\ SpriteIdle
    /\ AttachIdle

Next == RunTintEncoder \/ RunSpriteTransformEncoder

Spec == Init /\ [][Next]_vars

\* ---- the closures alone, on every view an EncodeLoop may hand them
CallTintClosure ==
    /\ IsNone(out_tint)
    /\ out_tint' = Some(RgbaTintClosure(in_rgba))
    /\ UNCHANGED <<in_rgba, in_transform, in_sprite_render, out_geom,
                   worldVars, frameVars, spriteVars, attachVars>>

CallTransformClosure ==
    /\ IsNone(out_geom)
    /\ out_geom' = Some(SpriteTransformClosure(in_transform, in_sprite_render))
    /\ UNCHANGED <<in_rgba, in_transform, in_sprite_render, out_tint,
                   worldVars, frameVars, spriteVars, attachVars>>

InitClosure ==
    /\ in_rgba \in Options(ClosureRgbaValues)
    /\ in_transform \in Options(ClosureTransforms)
    /\ in_sprite_render \in Options(ClosureSpriteRenders)
    /\ spritesheet_storage \in {OnlySheetA, BothSheets}
    /\ out_tint = None
    /\ out_geom = None
    /\ rgbas = [e \in Instances |-> None]
    /\ transforms = [e \in Instances |-> None]
    /\ sprite_renders = [e \in Instances |-> None]
    /\ tint = TintNotRun
    /\ geom = GeomNotRun
    /\ SpriteIdle
    /\ AttachIdle

NextClosure == CallTintClosure \/ CallTransformClosure

SpecClosure == InitClosure /\ [][NextClosure]_vars

\* ------------------------------------------------ claims: encoders_impl.rs
AllNone(i) == IsNone(geom.pos[i]) /\ IsNone(geom.dir_x[i]) /\ IsNone(geom.dir_y[i])
AllSome(i) == IsSome(geom.pos[i]) /\ IsSome(geom.dir_x[i]) /\ IsSome(geom.dir_y[i])

\* C1: for every entity the transform encoder visits, pos, dir_x and dir_y
\* are all concrete or all "no value", and they are all "no value" whenever
\* the GlobalTransform or the SpriteRender of the entity is absent.
C1_AllOrNothing ==
    geom.status = "ok" =>
    /\ Len(geom.pos) = Len(geom.rows)
    /\ Len(geom.dir_x) = Len(geom.rows)
    /\ Len(geom.dir_y) = Len(geom.rows)
    /\ \A i \in 1 .. Len(geom.rows) :
          /\ AllNone(i) \/ AllSome(i)
          /\ (IsNone(transforms[geom.rows[i]])
                \/ IsNone(sprite_renders[geom.rows[i]])) => AllNone(i)

\* C1 witness: one visited entity has a transform but no sprite, one has a
\* sprite but no transform.
C1_Witness ==
    /\ geom.status = "ok"
    /\ \E i, j \in 1 .. Len(geom.rows) :
          /\ IsSome(transforms[geom.rows[i]])
          /\ IsNone(sprite_renders[geom.rows[i]])
          /\ IsNone(transforms[geom.rows[j]])
          /\ IsSome(sprite_renders[geom.rows[j]])

\* The entity has both inputs, but its sprite cannot be resolved: the sheet
\* is not in the asset storage, or the sprite number is not in the sheet.
Unresolved(e) ==
    /\ IsSome(transforms[e])
    /\ IsSome(sprite_renders[e])
    /\ LET sr == Unwrap(sprite_renders[e])
           sheet == spritesheet_storage[sr.sprite_sheet]
       IN  IsNone(sheet) \/ sr.sprite_number >= Len(Unwrap(sheet).sprites)

\* C2: when an entity with both inputs has a sprite that cannot be
\* resolved, the encode call of the transform encoder does not crash and
\* withholds the three outputs of that entity.
C2_UnresolvedIsWithheld ==
    (geom.status # "idle" /\ \E e \in Instances : Unresolved(e)) =>
    /\ geom.status = "ok"
    /\ \A i \in 1 .. Len(geom.rows) : Unresolved(geom.rows[i]) => AllNone(i)

\* C3: the tint closure returns one concrete value for every view it is
\* handed: [1, 1, 1, 1] for an absent Rgba, and [r, g, b, a] unchanged for
\* Rgba(r, g, b, a).
C3_TintAlwaysConcrete ==
    IsSome(out_tint) =>
    LET r == Unwrap(out_tint) IN
    /\ Len(r) = 1
    /\ IsSome(r[1])
    /\ IsNone(in_rgba) => Unwrap(r[1]) = <<1, 1, 1, 1>>
    /\ IsSome(in_rgba) =>
          /\ Unwrap(r[1])[1] = Unwrap(in_rgba)[1]
          /\ Unwrap(r[1])[2] = Unwrap(in_rgba)[2]
          /\ Unwrap(r[1])[3] = Unwrap(in_rgba)[3]
          /\ Unwrap(r[1])[4] = Unwrap(in_rgba)[4]
          /\ Len(Unwrap(r[1])) = 4

\* C3 witness: the closure was called for an entity without Rgba.
C3_Witness == IsSome(out_tint) /\ IsNone(in_rgba)

\* C4: once both encoders have run in a frame, row i of the tint buffer and
\* row i of the pos, dir_x and dir_y buffers belong to the same entity.
C4_RowsAligned ==
    (tint.status = "ok" /\ geom.status = "ok") =>
    /\ tint.rows = geom.rows
    /\ Len(tint.tint) = Len(geom.pos)

SqNorm(v) == v[1] * v[1] + v[2] * v[2] + v[3] * v[3] + v[4] * v[4]

\* C9: with both inputs present and a resolved sprite of width W, height H
\* and offsets (ox, oy), dir_x is the first column times W, dir_y the second
\* column times H, and row i of pos is -ox * m(i,0) - oy * m(i,1) + m(i,3);
\* so |dir_x|^2 = L^2 * W^2 for a first column of length L (widths and
\* heights are not negative).
C9_DerivedGeometry ==
    (IsSome(out_geom) /\ IsSome(in_transform) /\ IsSome(in_sprite_render)
        /\ IsSome(spritesheet_storage[Unwrap(in_sprite_render).sprite_sheet])
        /\ Unwrap(in_sprite_render).sprite_number <
              Len(Unwrap(spritesheet_storage[
                    Unwrap(in_sprite_render).sprite_sheet]).sprites)) =>
    LET m == Unwrap(in_transform)
        sr == Unwrap(in_sprite_render)
        sp == Unwrap(spritesheet_storage[sr.sprite_sheet]).sprites[sr.sprite_number + 1]
        W == sp.width
        H == sp.height
        ox == sp.offsets[1]
        oy == sp.offsets[2]
        r == Unwrap(out_geom)
    IN  /\ ~r.panic
        /\ W >= 0 /\ H >= 0
        /\ r.out[2] = Some(<<m[1][1] * W, m[1][2] * W, m[1][3] * W, m[1][4] * W>>)
        /\ r.out[3] = Some(<<m[2][1] * H, m[2][2] * H, m[2][3] * H, m[2][4] * H>>)
        /\ r.out[1] = Some([i \in 1 .. 4 |->
                              (0 - ox) * m[1][i] + (0 - oy) * m[2][i] + m[4][i]])
        /\ SqNorm(Unwrap(r.out[2])) = SqNorm(m[1]) * W * W
        /\ SqNorm(Unwrap(r.out[3])) = SqNorm(m[2]) * H * H

\* C9 witness: a transform that is not symmetric, a sprite with offsets.
C9_Witness ==
    /\ IsSome(out_geom)
    /\ ~Unwrap(out_geom).panic
    /\ in_transform =
          Some(<<<<1, 2, 3, 4>>, <<5, 6, 7, 8>>, <<9, 10, 11, 12>>, <<13, 14, 15, 16>>>>)
    /\ in_sprite_render = Some(SpriteRender("sheet_a", 0))
    /\ Unwrap(out_geom).out[1] = Some(<<17, 18, 19, 20>>)

====
